---------------------------- MODULE Spec2Model ----------------------------
(***************************************************************************)
(* A model of the timeseries package (src/analyzeTimeseries.go): the       *)
(* period detector (periodogram, peak extraction), the calendar            *)
(* aggregators, the longest-continuous-run finder and AnalyzeTimestamps,   *)
(* which composes them.                                                     *)
(*                                                                         *)
(* Number representations                                                  *)
(*   float64 quantities that the code derives by exact rational steps      *)
(*   (hours, frequencies, periods, significance) are rationals [n, d] in   *)
(*   lowest terms.  Spectral power is a decimal fixed-point number [m, e]  *)
(*   denoting m * 10^(-e), so that the 1e-10 floor of findSignificantPeaks *)
(*   is representable.  Floating-point rounding is not modelled.           *)
(*   math.Cos / math.Sin are modelled by a fixed-point approximation       *)
(*   (phase quantised to one degree, amplitude to 1/TrigScale).            *)
(*   time.Time is [sec, nsec]: seconds since the Unix epoch and            *)
(*   nanoseconds within the second; its Location is the variable loc.      *)
(***************************************************************************)
EXTENDS Integers, Sequences, FiniteSets, TLC

VARIABLES
    timestamps,  \* AnalyzeTimestamps: the caller's []int64 (epoch milliseconds)
    config,      \* PeriodConfig
    loc,         \* time.Local of the process
    pc,          \* position inside the operation under analysis
    times,       \* the working []time.Time collection
    err,         \* the error returned ("" for nil)
    result,      \* the value under construction / returned
    freqs,       \* findSignificantPeaks: frequency grid
    powers,      \* findSignificantPeaks: power spectrum
    peaks,       \* findSignificantPeaks: peak index slice
    local,       \* AnalyzeTimestamps: local variables that live across statements
    observed     \* history: the working collection as each top-level window read it

vars == <<timestamps, config, loc, pc, times, err, result, freqs, powers, peaks,
          local, observed>>

(***************************************************************************)
(* Bounds of the model.                                                    *)
(***************************************************************************)
MaxSpectrumLen == 5
MaxPower == 2
MaxNumPeriods == 2

(***************************************************************************)
(* Generic helpers.                                                        *)
(***************************************************************************)
\* f(v), with v evaluated once however often f refers to its argument.
Eval(v, f(_)) == CHOOSE r \in {f(x) : x \in {v}} : TRUE

Abs(x) == IF x < 0 THEN -x ELSE x

Max(a, b) == IF a > b THEN a ELSE b

Min(a, b) == IF a < b THEN a ELSE b

RECURSIVE GCD(_, _)
GCD(a, b) == IF b = 0 THEN a ELSE GCD(b, a % b)

RECURSIVE Pow10(_)
Pow10(k) == IF k = 0 THEN 1 ELSE 10 * Pow10(k - 1)

Range(s) == {s[i] : i \in 1..Len(s)}

RECURSIVE SeqsUpTo(_, _)
SeqsUpTo(S, n) ==
    IF n = 0 THEN {<<>>}
    ELSE LET shorter == SeqsUpTo(S, n - 1)
         IN shorter \cup {Append(s, x) : s \in {t \in shorter : Len(t) = n - 1}, x \in S}

(***************************************************************************)
(* float64 as an exact rational n/d in lowest terms, d > 0 (d = 0: Inf).   *)
(***************************************************************************)
Rat(n, d) ==
    LET g == GCD(Abs(n), Abs(d))
        s == IF d < 0 THEN -1 ELSE 1
    IN IF g = 0 THEN [n |-> 0, d |-> 0]
       ELSE [n |-> (s * n) \div g, d |-> (s * d) \div g]

RatInt(k) == [n |-> k, d |-> 1]

RatLess(a, b) ==
    LET g == GCD(a.d, b.d)
    IN IF g = 0 THEN a.n < b.n ELSE a.n * (b.d \div g) < b.n * (a.d \div g)

RatLeq(a, b) == ~RatLess(b, a)

RatAdd(a, b) ==
    LET g == GCD(a.d, b.d)
    IN Rat(a.n * (b.d \div g) + b.n * (a.d \div g), (a.d \div g) * b.d)

RatNeg(a) == [n |-> -a.n, d |-> a.d]

RatSub(a, b) == RatAdd(a, RatNeg(b))

RatMul(a, b) ==
    LET x == Rat(a.n, b.d)
        y == Rat(b.n, a.d)
    IN Rat(x.n * y.n, x.d * y.d)

RatInv(a) == Rat(a.d, a.n)

RatDiv(a, b) == RatMul(a, RatInv(b))

\* Go's int(float64): truncation toward zero.
RatTrunc(a) == IF a.n >= 0 THEN a.n \div a.d ELSE -((-a.n) \div a.d)

\* math.Round: to the nearest integer, halves away from zero.
RatRound(a) ==
    IF a.n >= 0 THEN (2 * a.n + a.d) \div (2 * a.d)
    ELSE -((2 * (-a.n) + a.d) \div (2 * a.d))

(***************************************************************************)
(* Spectral power: decimal fixed point [m, e] = m * 10^(-e).               *)
(***************************************************************************)
Dec(m, e) == [m |-> m, e |-> e]

\* floor(m / 10^k) for a mantissa m (|m| < 2^31 < 10^10)
FloorDivPow10(m, k) ==
    IF k >= 10 THEN (IF m >= 0 THEN 0 ELSE -1) ELSE m \div Pow10(k)

DecGt(a, b) ==
    IF a.e = b.e THEN a.m > b.m
    ELSE IF a.e < b.e THEN a.m > FloorDivPow10(b.m, b.e - a.e)
    ELSE b.m < -FloorDivPow10(-a.m, a.e - b.e)

DecLt(a, b) == DecGt(b, a)

DecAdd(a, b) ==
    IF a.e = b.e THEN Dec(a.m + b.m, a.e)
    ELSE IF a.e < b.e THEN Dec(a.m * Pow10(b.e - a.e) + b.m, b.e)
    ELSE Dec(a.m + b.m * Pow10(a.e - b.e), a.e)

\* a / b as a rational.
DecRatio(a, b) ==
    Rat(a.m * Pow10(Max(0, b.e - a.e)), b.m * Pow10(Max(0, a.e - b.e)))

(***************************************************************************)
(* Peak extraction (findSignificantPeaks and its helpers).                 *)
(***************************************************************************)
\* The indices are Go's 0-based indices; data[i + 1] is Go's data[i].
\* The loop for i := 1; i < len(data)-1; i++ over lo..hi, unrolled by halving
\* (a spectrum has 100 points or more; this keeps the evaluation shallow).
\* Variant with non-strict comparisons (plateau points counted as peaks); used
\* to show that C7_LocalPeaksExact depends on the strictness of the test.
RECURSIVE LocalPeaksNonStrictIn(_, _, _)
LocalPeaksNonStrictIn(data, lo, hi) ==
    IF lo > hi THEN <<>>
    ELSE IF lo = hi
         THEN IF ~DecGt(data[lo], data[lo + 1]) /\ ~DecGt(data[lo + 2], data[lo + 1])
              THEN <<lo>> ELSE <<>>
    ELSE LET mid == (lo + hi) \div 2
         IN LocalPeaksNonStrictIn(data, lo, mid) \o LocalPeaksNonStrictIn(data, mid + 1, hi)

findLocalPeaksNonStrict(data) == LocalPeaksNonStrictIn(data, 1, Len(data) - 2)

RECURSIVE LocalPeaksIn(_, _, _)
LocalPeaksIn(data, lo, hi) ==
    IF lo > hi THEN <<>>
    ELSE IF lo = hi
         THEN IF DecGt(data[lo + 1], data[lo]) /\ DecGt(data[lo + 1], data[lo + 2])
              THEN <<lo>> ELSE <<>>
    ELSE LET mid == (lo + hi) \div 2
         IN LocalPeaksIn(data, lo, mid) \o LocalPeaksIn(data, mid + 1, hi)

findLocalPeaks(data) == LocalPeaksIn(data, 1, Len(data) - 2)

\* sort.Slice with less(i, j) = powers[peaks[i]] > powers[peaks[j]].  sort.Slice
\* is not a stable sort: every ordering that is consistent with less is a
\* possible outcome.  In such an ordering the peak i stands at one of the
\* positions after the peaks that are less than it and before those that it is
\* less than.  SortOutcomes(S, pw, less, lo, hi) is the set of the possible
\* contents of positions lo..hi.
RECURSIVE SortOutcomes(_, _, _, _, _)
SortOutcomes(S, pw, less(_, _), lo, hi) ==
    IF lo > hi THEN {<<>>}
    ELSE IF lo = hi
         THEN {<<i>> : i \in {j \in S :
                  /\ Cardinality({k \in S : less(pw[k + 1], pw[j + 1])}) < lo
                  /\ lo <= Cardinality({k \in S : ~less(pw[j + 1], pw[k + 1])})}}
    ELSE LET mid == (lo + hi) \div 2
             right == SortOutcomes(S, pw, less, mid + 1, hi)
         IN UNION {{a \o b : b \in {c \in right : Range(c) \cap Range(a) = {}}} :
                     a \in SortOutcomes(S, pw, less, lo, mid)}

\* Variant sorting by ascending power (comparator reversed).
sortPeaksAscending(pk, pw) == SortOutcomes(Range(pk), pw, DecLt, 1, Len(pk))

sortPeaksByPower(pk, pw) == SortOutcomes(Range(pk), pw, DecGt, 1, Len(pk))

\* Variant keeping one peak too many (off-by-one slice bound).
truncatePeaksOffByOne(pk, numPeriods) ==
    IF Len(pk) > numPeriods THEN SubSeq(pk, 1, numPeriods + 1) ELSE pk

\* peaks = peaks[:NumPeriods] when len(peaks) > NumPeriods
truncatePeaks(pk, numPeriods) ==
    IF Len(pk) > numPeriods THEN SubSeq(pk, 1, numPeriods) ELSE pk

\* totalPower += p over pw[lo..hi], unrolled by halving.
RECURSIVE SumPowersIn(_, _, _)
SumPowersIn(pw, lo, hi) ==
    IF lo = hi THEN pw[lo]
    ELSE LET mid == (lo + hi) \div 2
         IN DecAdd(SumPowersIn(pw, lo, mid), SumPowersIn(pw, mid + 1, hi))

SumPowers(pw, k) == IF k = 0 THEN Dec(0, 0) ELSE SumPowersIn(pw, 1, k)

PowerFloor == Dec(1, 10)

\* Variant without the 1e-10 floor.
totalPowerNoFloor(pw) == SumPowers(pw, Len(pw))

totalPowerOf(pw) ==
    LET total == SumPowers(pw, Len(pw))
    IN IF DecLt(total, PowerFloor) THEN PowerFloor ELSE total

makeResults(pk, fq, pw) ==
    LET total == totalPowerOf(pw)
    IN [i \in 1..Len(pk) |->
          [period       |-> RatInv(fq[pk[i] + 1]),
           power        |-> pw[pk[i] + 1],
           significance |-> RatMul(DecRatio(pw[pk[i] + 1], total), RatInt(100))]]

\* sortPeaksByPower followed by the truncation to numPeriods: the possible
\* contents of the first numPeriods positions, that is
\* {truncatePeaks(sorted, numPeriods) : sorted \in sortPeaksByPower(pk, pw)},
\* computed without enumerating the orderings of the peaks that are dropped.
sortAndTruncate(pk, pw, numPeriods) ==
    IF Len(pk) > numPeriods
    THEN SortOutcomes(Range(pk), pw, DecGt, 1, numPeriods)
    ELSE sortPeaksByPower(pk, pw)

\* The set of values findSignificantPeaks can return.
findSignificantPeaks(fq, pw, numPeriods) ==
    LET found == findLocalPeaks(pw)
    IN IF Len(found) = 0 THEN {<<>>}
       ELSE {makeResults(kept, fq, pw) : kept \in sortAndTruncate(found, pw, numPeriods)}

(***************************************************************************)
(* SpecPeaks: findSignificantPeaks, statement by statement, on every small *)
(* spectrum of non-negative powers.                                        *)
(***************************************************************************)
PowerExps == {0, 11}

Spectra ==
    UNION {{[i \in 1..Len(s) |-> Dec(s[i], e)] : s \in SeqsUpTo(0..MaxPower, MaxSpectrumLen)} :
             e \in PowerExps}

GridOf(n) == [i \in 1..n |-> Rat(i, 10)]

NoConfig == [MinPeriod |-> 1, MaxPeriod |-> 2, NumPeriods |-> 1, SamplesPerPeak |-> 1]

InitPeaks ==
    /\ powers \in Spectra
    /\ freqs = GridOf(Len(powers))
    /\ config \in {[NoConfig EXCEPT !.NumPeriods = k] : k \in 1..MaxNumPeriods}
    /\ peaks = <<>>
    /\ pc = "findLocalPeaks"
    /\ result = <<>>
    /\ timestamps = <<>>
    /\ times = <<>>
    /\ loc = "UTC"
    /\ err = ""
    /\ local = <<>>
    /\ observed = <<>>

PeaksFrame == UNCHANGED <<timestamps, config, loc, times, err, freqs, powers, local, observed>>

FindLocalPeaks ==
    /\ pc = "findLocalPeaks"
    /\ peaks' = findLocalPeaks(powers)
    /\ pc' = IF Len(peaks') = 0 THEN "done" ELSE "sortPeaksByPower"
    /\ result' = <<>>
    /\ PeaksFrame

SortPeaksByPower ==
    /\ pc = "sortPeaksByPower"
    /\ peaks' \in sortPeaksByPower(peaks, powers)
    /\ pc' = "truncate"
    /\ UNCHANGED result
    /\ PeaksFrame

TruncatePeaks ==
    /\ pc = "truncate"
    /\ peaks' = truncatePeaks(peaks, config.NumPeriods)
    /\ pc' = "results"
    /\ UNCHANGED result
    /\ PeaksFrame

MakeResults ==
    /\ pc = "results"
    /\ result' = makeResults(peaks, freqs, powers)
    /\ pc' = "done"
    /\ UNCHANGED peaks
    /\ PeaksFrame

NextPeaks == FindLocalPeaks \/ SortPeaksByPower \/ TruncatePeaks \/ MakeResults

SpecPeaks == InitPeaks /\ [][NextPeaks]_vars

(***************************************************************************)
(* Properties of peak extraction (checked under SpecPeaks).                *)
(***************************************************************************)
\* The interior strict local maxima of the spectrum, stated on mantissas (all
\* powers of one spectrum share their exponent).
StrictMaxima ==
    {i \in 0..(Len(powers) - 1) :
        /\ 1 <= i
        /\ i <= Len(powers) - 2
        /\ powers[i + 1].m > powers[i].m
        /\ powers[i + 1].m > powers[i + 2].m}

PeaksJustFound == pc = "sortPeaksByPower" \/ (pc = "done" /\ peaks = <<>>)

\* C7: findLocalPeaks returns exactly the indices i, 1 <= i <= n-2, with
\* power[i] > power[i-1] and power[i] > power[i+1], in ascending index order;
\* the end points and plateau points are never returned, and a sequence
\* shorter than 3 has no peaks.
C7_LocalPeaksExact ==
    PeaksJustFound =>
        /\ Range(peaks) = StrictMaxima
        /\ \A k \in 1..Len(peaks) : \A l \in 1..Len(peaks) : k < l => peaks[k] < peaks[l]
        /\ \A k \in 1..Len(peaks) :
              /\ peaks[k] # 0
              /\ peaks[k] # Len(powers) - 1
              /\ powers[peaks[k] + 1] # powers[peaks[k]]
              /\ powers[peaks[k] + 1] # powers[peaks[k] + 2]
        /\ (Len(powers) < 3 => peaks = <<>>)

\* Witness of C7: a peak found in a spectrum that also holds a plateau.
C7_Witness ==
    /\ pc = "sortPeaksByPower"
    /\ Len(peaks) = 1
    /\ peaks[1] > 1
    /\ \E i \in 1..(Len(powers) - 1) : powers[i] = powers[i + 1] /\ powers[i].m > 0

\* C2: the sequence returned by findSignificantPeaks has length
\* min(numPeriods, number of peaks), hence at most numPeriods, and its
\* entries are in non-increasing order of power.
C2_LengthAndOrder ==
    pc = "done" =>
        /\ Len(result) = Min(config.NumPeriods, Cardinality(StrictMaxima))
        /\ Len(result) <= config.NumPeriods
        /\ \A k \in 1..Len(result) : \A l \in 1..Len(result) :
              k < l => result[k].power.m >= result[l].power.m

\* Witness of C2: two peaks of different power, both returned, and (in
\* another spectrum) truncation; the witness is the ordered, untruncated case
\* with the stronger peak at the higher frequency.
C2_Witness ==
    /\ pc = "done"
    /\ Len(result) = 2
    /\ result[1].power.m > result[2].power.m
    /\ RatLess(result[1].period, result[2].period)

\* C3: every returned significance equals power / max(totalPower, 1e-10) * 100
\* with totalPower summed over the whole spectrum, and lies in [0, 100].
MantissaSum == SumPowers(powers, Len(powers)).m

SpectrumExp == IF Len(powers) = 0 THEN 0 ELSE powers[1].e

\* max(totalPower, 1e-10) in units of 10^(-SpectrumExp), for a spectrum that
\* has a peak (so that its total is positive).
FlooredTotalUnits == IF SpectrumExp = 11 THEN Max(MantissaSum, 10) ELSE MantissaSum

C3_Significance ==
    pc = "done" =>
        \A k \in 1..Len(result) :
            /\ result[k].significance = Rat(100 * result[k].power.m, FlooredTotalUnits)
            /\ RatLeq(RatInt(0), result[k].significance)
            /\ RatLeq(result[k].significance, RatInt(100))

\* Witness of C3: a result computed with totalPower below the 1e-10 floor.
C3_Witness ==
    /\ pc = "done"
    /\ Len(result) > 0
    /\ SpectrumExp = 11
    /\ MantissaSum < 10
    /\ result[1].significance = RatInt(20)

PeaksSorted == pc \in {"truncate", "results"} \/ (pc = "done" /\ peaks # <<>>)

\* C8 as stated: of two peaks with exactly equal power, the one with the lower
\* frequency index is ordered first in the sorted peak list, and is therefore
\* the one retained when truncation cuts between them.
C8_StableTies ==
    PeaksSorted =>
        /\ \A k \in 1..Len(peaks) : \A l \in 1..Len(peaks) :
              (k < l /\ powers[peaks[k] + 1] = powers[peaks[l] + 1]) => peaks[k] < peaks[l]
        /\ \A i \in Range(peaks) : \A j \in StrictMaxima \ Range(peaks) :
              powers[i + 1] = powers[j + 1] => i < j

\* C8 amended: the sorted peak list is a permutation of the local peaks in
\* non-increasing order of power, and truncation retains peaks whose power is
\* at least that of every dropped peak; the relative order of peaks of exactly
\* equal power is not determined (sort.Slice is not stable).
C8_OrderedUpToTies ==
    /\ pc = "truncate" =>
          /\ Range(peaks) = StrictMaxima
          /\ Len(peaks) = Cardinality(StrictMaxima)
          /\ \A k \in 1..Len(peaks) : \A l \in 1..Len(peaks) :
                k < l => powers[peaks[k] + 1].m >= powers[peaks[l] + 1].m
    /\ (pc \in {"results", "done"} /\ peaks # <<>>) =>
          /\ Range(peaks) \subseteq StrictMaxima
          /\ \A i \in Range(peaks) : \A j \in StrictMaxima \ Range(peaks) :
                powers[i + 1].m >= powers[j + 1].m

\* Witness of C8: two peaks of equal power, truncation cut between them, and
\* the peak of the higher frequency index retained.
C8_Witness ==
    /\ pc = "done"
    /\ Len(peaks) = 1
    /\ \E j \in StrictMaxima : j < peaks[1] /\ powers[j + 1] = powers[peaks[1] + 1]


(***************************************************************************)
(* time.Time and time.Duration.                                            *)
(*   A Time is [sec, nsec].  Durations that the code uses as constants     *)
(*   (24h, 72h, 336h) are whole seconds; Duration.Hours() is a rational.   *)
(***************************************************************************)
SecPerDay == 86400

SecPerHour == 3600

NsecPerSec == 1000000000

Time(sec, nsec) == [sec |-> sec, nsec |-> nsec]

\* time.Time{}: January 1, year 1, which lies before every modelled instant.
ZeroSec == -2000000000

ZeroTime == Time(ZeroSec, 0)

IsZero(t) == t = ZeroTime

Before(t, u) == t.sec < u.sec \/ (t.sec = u.sec /\ t.nsec < u.nsec)

After(t, u) == Before(u, t)

\* t.Add(d) for a duration of whole seconds
AddSeconds(t, secs) == Time(t.sec + secs, t.nsec)

\* t.Truncate(24 * time.Hour): rounds the absolute time since the zero time
\* down to a multiple of 24h, whatever the Location (the zero time is a
\* midnight UTC, so this is the start of the UTC day).
Truncate24h(t) == Time(t.sec - (t.sec % SecPerDay), 0)

\* t.Sub(u).Hours()
SubHours(t, u) ==
    RatAdd(Rat(t.sec - u.sec, SecPerHour),
           RatMul(Rat(t.nsec - u.nsec, NsecPerSec), Rat(1, SecPerHour)))

\* sort.Slice(times, Before): insertion of each element in turn.  Elements
\* that compare equal are equal values, so the outcome is unique.
RECURSIVE InsertTime(_, _)
InsertTime(sorted, t) ==
    IF sorted = <<>> THEN <<t>>
    ELSE IF Before(t, Head(sorted)) THEN <<t>> \o sorted
    ELSE <<Head(sorted)>> \o InsertTime(Tail(sorted), t)

RECURSIVE SortTimes(_)
SortTimes(ts) ==
    IF ts = <<>> THEN <<>> ELSE InsertTime(SortTimes(Tail(ts)), Head(ts))

RECURSIVE SetToSortedTimes(_)
SetToSortedTimes(S) ==
    IF S = {} THEN <<>>
    ELSE LET least == CHOOSE t \in S : \A u \in S : ~Before(u, t)
         IN <<least>> \o SetToSortedTimes(S \ {least})

RECURSIVE SelectSeq2(_, _)
SelectSeq2(s, keep) ==
    IF s = <<>> THEN <<>>
    ELSE IF keep[Head(s)] THEN <<Head(s)>> \o SelectSeq2(Tail(s), keep)
    ELSE SelectSeq2(Tail(s), keep)

(***************************************************************************)
(* findLongestContinuousPeriod.                                            *)
(***************************************************************************)
\* Variant that breaks a run at a gap of 2 days already.
gapWithinRunStrict(gap) == RatLess(gap, RatInt(2))

\* gap <= 2
gapWithinRun(gap) == RatLeq(gap, RatInt(2))

\* Variant in which a later run of equal length replaces the best run.
longerRunOrEqual(currentLength, maxLength) == currentLength >= maxLength

\* currentLength > maxLength
longerRun(currentLength, maxLength) == currentLength > maxLength

closeRun(st) ==
    IF longerRun(st.currentLength, st.maxLength)
    THEN [st EXCEPT !.maxStart = st.currentStart, !.maxEnd = st.currentEnd,
                    !.maxLength = st.currentLength]
    ELSE st

\* The loop over days (i is Go's 0-based index).
RECURSIVE scanDays(_, _, _)
scanDays(days, i, st) ==
    IF i >= Len(days) THEN st
    ELSE IF i = 0
         THEN scanDays(days, 1, [st EXCEPT !.currentStart = days[1], !.currentEnd = days[1],
                                           !.currentLength = 1])
    ELSE LET gap == RatDiv(SubHours(days[i + 1], days[i]), RatInt(24))
         IN IF gapWithinRun(gap)
            THEN scanDays(days, i + 1, [st EXCEPT !.currentEnd = days[i + 1],
                                                  !.currentLength = st.currentLength + 1])
            ELSE scanDays(days, i + 1,
                          [closeRun(st) EXCEPT !.currentStart = days[i + 1],
                                               !.currentEnd = days[i + 1],
                                               !.currentLength = 1])

\* Returns start, end, continuous and the argument slice as the call leaves it
\* (sorted in place when it has at least 2 elements).
findLongestContinuousPeriod(ts) ==
    IF Len(ts) < 2
    THEN [start |-> ZeroTime, end |-> ZeroTime, continuous |-> ts, times |-> ts]
    ELSE LET sorted == SortTimes(ts)
             daySet == {Truncate24h(sorted[i]) : i \in 1..Len(sorted)}
             days   == SetToSortedTimes(daySet)
             st0    == [currentStart |-> ZeroTime, currentEnd |-> ZeroTime,
                        maxStart |-> ZeroTime, maxEnd |-> ZeroTime,
                        maxLength |-> 0, currentLength |-> 0]
             st     == closeRun(scanDays(days, 0, st0))
         IN IF st.maxLength = 0
            THEN [start |-> sorted[1], end |-> sorted[Len(sorted)],
                  continuous |-> sorted, times |-> sorted]
            ELSE LET startLimit == st.maxStart
                     endLimit   == AddSeconds(st.maxEnd, 24 * SecPerHour)
                     keep == [t \in Range(sorted) |->
                                 ~Before(t, startLimit) /\ Before(t, endLimit)]
                 IN [start |-> st.maxStart, end |-> st.maxEnd,
                     continuous |-> SelectSeq2(sorted, keep), times |-> sorted]

(***************************************************************************)
(* SpecRun: findLongestContinuousPeriod on every small collection of       *)
(* times spread over a few days around the epoch.                          *)
(***************************************************************************)
MaxRunLen == 4
MaxRunDay == 4

\* The time of day of the k-th element: midnight, or half a second past noon.
TimeOfDay(k) == IF k % 2 = 1 THEN Time(0, 0) ELSE Time(12 * SecPerHour, 500000000)

TimeOnDay(day, k) == Time(day * SecPerDay + TimeOfDay(k).sec, TimeOfDay(k).nsec)

RunInputs ==
    {[k \in 1..Len(ds) |-> TimeOnDay(ds[k], k)] : ds \in SeqsUpTo((-1)..MaxRunDay, MaxRunLen)}

InitRun ==
    /\ times \in RunInputs
    /\ pc = "findLongestContinuousPeriod"
    /\ result = <<>>
    /\ timestamps = <<>>
    /\ config = NoConfig
    /\ loc = "UTC"
    /\ err = ""
    /\ freqs = <<>>
    /\ powers = <<>>
    /\ peaks = <<>>
    /\ local = <<>>
    /\ observed = <<>>

FindLongestContinuousPeriod ==
    /\ pc = "findLongestContinuousPeriod"
    /\ LET r == findLongestContinuousPeriod(times)
       IN /\ result' = [start |-> r.start, end |-> r.end, continuous |-> r.continuous,
                        input |-> times]
          /\ times' = r.times
    /\ pc' = "done"
    /\ UNCHANGED <<timestamps, config, loc, err, freqs, powers, peaks, local, observed>>

NextRun == FindLongestContinuousPeriod

SpecRun == InitRun /\ [][NextRun]_vars

(***************************************************************************)
(* Properties of findLongestContinuousPeriod (checked under SpecRun).      *)
(***************************************************************************)
\* Day numbers (days since the epoch, UTC) of the collection.
DayNumber(t) == t.sec \div 86400

DayNumbers == {DayNumber(times[i]) : i \in 1..Len(times)}

\* a..b is a run: both are days of the collection and every day of the
\* collection in a..b except b has its successor at most 2 days later.
IsRun(a, b) ==
    /\ a \in DayNumbers
    /\ b \in DayNumbers
    /\ a <= b
    /\ \A x \in DayNumbers : (a <= x /\ x < b) => \E y \in DayNumbers : x < y /\ y <= x + 2

IsMaximalRun(a, b) ==
    /\ IsRun(a, b)
    /\ ~\E x \in DayNumbers : x < a /\ a <= x + 2
    /\ ~\E y \in DayNumbers : b < y /\ y <= b + 2

RunSize(a, b) == Cardinality({x \in DayNumbers : a <= x /\ x <= b})

\* C4: for at least 2 timestamps, start and end are the first and last day of
\* a maximal run of unique days with consecutive days at most 2 days apart;
\* no maximal run has more unique days, and of the maximal runs with that
\* many days the chronologically first is the one returned.
C4_LongestRunFirstOnTies ==
    (pc = "done" /\ Len(result.input) >= 2) =>
        LET a == DayNumber(result.start)
            b == DayNumber(result.end)
        IN /\ result.start = Time(a * 86400, 0)
           /\ result.end = Time(b * 86400, 0)
           /\ IsMaximalRun(a, b)
           /\ \A c \in DayNumbers : \A d \in DayNumbers :
                 IsMaximalRun(c, d) =>
                    /\ RunSize(c, d) <= RunSize(a, b)
                    /\ (RunSize(c, d) = RunSize(a, b) => a <= c)

\* Witness of C4: an unsorted collection with two maximal runs of 2 unique
\* days each; the earlier run is returned.
C4_Witness ==
    /\ pc = "done"
    /\ result.input # times
    /\ \E c \in DayNumbers : \E d \in DayNumbers :
          /\ IsMaximalRun(c, d)
          /\ DayNumber(result.end) < c
          /\ RunSize(c, d) = 2
          /\ RunSize(DayNumber(result.start), DayNumber(result.end)) = 2


(***************************************************************************)
(* Calendar arithmetic of package time, in a Location.                     *)
(*   time.Unix returns a Time in time.Local, so Year, Month, Date, AddDate *)
(*   and ISOWeek work in the local zone of the process.  Two zones are     *)
(*   modelled: UTC, and America/New_York, which is on EST (UTC-5) until    *)
(*   1970-04-26 07:00 UTC and on EDT (UTC-4) from then on.  The modelled   *)
(*   instants lie between 1969-10-26 and 1970-10-25, where these are the   *)
(*   only two periods of that zone.                                        *)
(***************************************************************************)
Locations == {"UTC", "America/New_York"}

\* Location.lookup: the offset in force at sec and the bounds of its period.
lookup(l, sec) ==
    IF l = "UTC" THEN [offset |-> 0, start |-> ZeroSec, end |-> -ZeroSec]
    ELSE IF sec < 9961200
         THEN [offset |-> -18000, start |-> -5767200, end |-> 9961200]
         ELSE [offset |-> -14400, start |-> 9961200, end |-> 25682400]

\* Days since 1970-01-01 of the civil date y-m-d (proleptic Gregorian).
DaysFromCivil(y, m, d) ==
    LET yy  == IF m <= 2 THEN y - 1 ELSE y
        era == yy \div 400
        yoe == yy - era * 400
        mp  == (m + 9) % 12
        doy == (153 * mp + 2) \div 5 + d - 1
        doe == yoe * 365 + yoe \div 4 - yoe \div 100 + doy
    IN era * 146097 + doe - 719468

\* The civil date of a day number.
CivilFromDays(z0) ==
    LET z   == z0 + 719468
        era == z \div 146097
        doe == z - era * 146097
        yoe == (doe - doe \div 1460 + doe \div 36524 - doe \div 146096) \div 365
        doy == doe - (365 * yoe + yoe \div 4 - yoe \div 100)
        mp  == (5 * doy + 2) \div 153
        d   == doy - (153 * mp + 2) \div 5 + 1
        m   == IF mp < 10 THEN mp + 3 ELSE mp - 9
        y   == yoe + era * 400 + (IF m <= 2 THEN 1 ELSE 0)
    IN [year |-> y, month |-> m, day |-> d]

\* Seconds since the epoch of the local wall clock of t.
LocalSec(t, l) == t.sec + lookup(l, t.sec).offset

\* t.Date(): year, month, day in l
DateOf(t, l) == CivilFromDays(LocalSec(t, l) \div SecPerDay)

\* time.Date(year, month, day, 0, 0, sec, nsec, l); month, day and sec are
\* normalised, and the wall clock is converted to an instant with the offset
\* found by lookup, as package time does.
GoDate(year, month, day, sec, nsec, l) ==
    LET m0   == month - 1
        y    == year + m0 \div 12
        m    == (m0 % 12) + 1
        unix == (DaysFromCivil(y, m, 1) + day - 1) * SecPerDay + sec
        z    == lookup(l, unix)
        utc  == unix - z.offset
        off  == IF z.offset = 0 THEN 0
                ELSE IF utc < z.start \/ utc >= z.end THEN lookup(l, utc).offset
                ELSE z.offset
    IN Time(unix - off, nsec)

\* t.AddDate(years, months, days)
AddDate(t, years, months, days, l) ==
    LET c == DateOf(t, l)
    IN GoDate(c.year + years, c.month + months, c.day + days,
              LocalSec(t, l) % SecPerDay, t.nsec, l)

(***************************************************************************)
(* aggregateByDay, aggregateByMonth.                                       *)
(***************************************************************************)
\* A map[time.Time]int built by counting keyOf(t) over ts.
countMap(ts, keyOf(_)) ==
    [k \in {keyOf(ts[i]) : i \in 1..Len(ts)} |->
        Cardinality({i \in 1..Len(ts) : keyOf(ts[i]) = k})]

\* m[k], 0 for a missing key
mapGet(m, k) == IF k \in DOMAIN m THEN m[k] ELSE 0

\* The loops over the map that find the least and the greatest key, in the
\* order the map happens to be ranged over.
RECURSIVE foldMin(_, _)
foldMin(S, acc) ==
    IF S = {} THEN acc
    ELSE LET k == CHOOSE x \in S : TRUE
         IN foldMin(S \ {k}, IF IsZero(acc) \/ Before(k, acc) THEN k ELSE acc)

RECURSIVE foldMax(_, _)
foldMax(S, acc) ==
    IF S = {} THEN acc
    ELSE LET k == CHOOSE x \in S : TRUE
         IN foldMax(S \ {k}, IF IsZero(acc) \/ After(k, acc) THEN k ELSE acc)

\* The dates current, current.AddDate(0, months, days), ... : the n values the
\* loop variable takes (the loop is unrolled by halving to keep the
\* evaluation shallow).
RECURSIVE loopDates(_, _, _, _, _)
loopDates(current, n, months, days, l) ==
    IF n = 0 THEN <<>>
    ELSE IF n = 1 THEN <<current>>
    ELSE LET h == n \div 2
             andRest(left) ==
                 left \o loopDates(AddDate(left[h], 0, months, days, l), n - h, months, days, l)
         IN Eval(loopDates(current, h, months, days, l), andRest)

\* for !current.After(maxDate) { ...; current = current.AddDate(0, months, days) }
\* The dates visited: the loop leaves at the first date after maxDate.  Each
\* step advances by at least minStep seconds, which bounds the iterations.
datesUpTo(minDate, maxDate, months, days, minStep, l) ==
    LET n == (maxDate.sec - minDate.sec) \div minStep + 2
        visited(dates) ==
            SubSeq(dates, 1,
                   Cardinality({k \in 1..n : \A j \in 1..k : ~After(dates[j], maxDate)}))
    IN Eval(loopDates(minDate, n, months, days, l), visited)

\* The loop that fills one record per date between the least and the greatest
\* key of the map.
fillSeries(m, months, days, minStep, l, record(_, _)) ==
    LET between(minDate) ==
            LET upTo(maxDate) ==
                    LET fill(dates) == [k \in 1..Len(dates) |-> record(dates[k], mapGet(m, dates[k]))]
                    IN Eval(datesUpTo(minDate, maxDate, months, days, minStep, l), fill)
            IN Eval(foldMax(DOMAIN m, ZeroTime), upTo)
    IN Eval(foldMin(DOMAIN m, ZeroTime), between)

aggregateByDay(ts, l) ==
    LET dayRecord(date, count) == [Date |-> date, Count |-> count]
        series(dateMap) ==
            IF DOMAIN dateMap = {} THEN <<>>
            ELSE fillSeries(dateMap, 0, 1, 23 * SecPerHour, l, dayRecord)
    IN Eval(countMap(ts, Truncate24h), series)

aggregateByMonth(ts, l) ==
    LET monthOf(t) == GoDate(DateOf(t, l).year, DateOf(t, l).month, 1, 0, 0, l)
        monthRecord(month, count) == [Month |-> month, Count |-> count]
        series(monthMap) ==
            IF DOMAIN monthMap = {} THEN <<>>
            ELSE fillSeries(monthMap, 1, 0, 27 * SecPerDay, l, monthRecord)
    IN Eval(countMap(ts, monthOf), series)

(***************************************************************************)
(* SpecAgg: the day and month aggregators on small collections of times    *)
(* between March and June 1970, in either zone.                            *)
(***************************************************************************)
MaxAggLen == 3

\* 1970-03-31, 1970-04-25, 1970-04-27 and 1970-06-01, at noon UTC.
AggInstants == {Time(d * SecPerDay + 12 * SecPerHour, 0) : d \in {89, 114, 116, 151}}

InitAgg ==
    /\ times \in SeqsUpTo(AggInstants, MaxAggLen) \ {<<>>}
    /\ loc \in Locations
    /\ pc = "aggregateByDay"
    /\ result = [days |-> <<>>, months |-> <<>>]
    /\ timestamps = <<>>
    /\ config = NoConfig
    /\ err = ""
    /\ freqs = <<>>
    /\ powers = <<>>
    /\ peaks = <<>>
    /\ local = <<>>
    /\ observed = <<>>

AggFrame ==
    UNCHANGED <<timestamps, config, loc, times, err, freqs, powers, peaks, local, observed>>

AggregateByDay ==
    /\ pc = "aggregateByDay"
    /\ result' = [result EXCEPT !.days = aggregateByDay(times, loc)]
    /\ pc' = "aggregateByMonth"
    /\ AggFrame

AggregateByMonth ==
    /\ pc = "aggregateByMonth"
    /\ result' = [result EXCEPT !.months = aggregateByMonth(times, loc)]
    /\ pc' = "done"
    /\ AggFrame

NextAgg == AggregateByDay \/ AggregateByMonth

SpecAgg == InitAgg /\ [][NextAgg]_vars

(***************************************************************************)
(* Properties of the aggregators (checked under SpecAgg).                  *)
(***************************************************************************)
SetMin(S) == CHOOSE x \in S : \A y \in S : x <= y

SetMax(S) == CHOOSE x \in S : \A y \in S : x >= y

\* Months are numbered year * 12 + (month - 1), in the local calendar.
MonthNumber(t) == DateOf(t, loc).year * 12 + DateOf(t, loc).month - 1

MonthNumbers == {MonthNumber(times[i]) : i \in 1..Len(times)}

DaySeriesDense ==
    LET lo == SetMin(DayNumbers)
        hi == SetMax(DayNumbers)
    IN /\ Len(result.days) = hi - lo + 1
       /\ \A k \in 1..Len(result.days) :
             /\ result.days[k].Date = Time((lo + k - 1) * 86400, 0)
             /\ result.days[k].Count =
                   Cardinality({i \in 1..Len(times) : DayNumber(times[i]) = lo + k - 1})

MonthSeriesDense ==
    LET lo == SetMin(MonthNumbers)
        hi == SetMax(MonthNumbers)
    IN /\ Len(result.months) = hi - lo + 1
       /\ \A k \in 1..Len(result.months) :
             /\ MonthNumber(result.months[k].Month) = lo + k - 1
             /\ DateOf(result.months[k].Month, loc).day = 1
             /\ LocalSec(result.months[k].Month, loc) % 86400 = 0
             /\ result.months[k].Count =
                   Cardinality({i \in 1..Len(times) : MonthNumber(times[i]) = lo + k - 1})

\* C5: for a non-empty collection aggregateByDay returns exactly one DayRecord
\* for every calendar day from the earliest to the latest observed day, in
\* ascending order, without gaps or duplicates, whose count is the number of
\* timestamps on that day; aggregateByMonth does the same for months.
C5_DenseDayAndMonthSeries ==
    /\ pc \in {"aggregateByMonth", "done"} => DaySeriesDense
    /\ pc = "done" => MonthSeriesDense

\* What the code does establish: the month series is dense in every zone, and
\* the day series is dense when the zone has a constant offset.
AggregatorsUtc ==
    /\ (pc \in {"aggregateByMonth", "done"} /\ loc = "UTC") => DaySeriesDense
    /\ pc = "done" => MonthSeriesDense


(***************************************************************************)
(* Conversion of the input, date range, windows, quarters, weeks.          *)
(***************************************************************************)
MsPerSec == 1000

NsecPerMs == 1000000

\* Go's integer division and remainder (truncated toward zero).
goQuot(a, b) == IF a >= 0 THEN a \div b ELSE -((-a) \div b)

goRem(a, b) == a - b * goQuot(a, b)

\* time.Unix(sec, nsec): nsec outside [0, 1e9) is carried into sec.
timeUnix(sec, nsec) ==
    LET n  == goQuot(nsec, NsecPerSec)
        s1 == sec + n
        n1 == nsec - n * NsecPerSec
    IN IF n1 < 0 THEN Time(s1 - 1, n1 + NsecPerSec) ELSE Time(s1, n1)

\* times[i] = time.Unix(ts/1000, (ts%1000)*int64(time.Millisecond))
convertTimes(tss) ==
    [i \in 1..Len(tss) |->
        timeUnix(goQuot(tss[i], MsPerSec), goRem(tss[i], MsPerSec) * NsecPerMs)]

RECURSIVE earliest(_, _)
earliest(ts, acc) ==
    IF ts = <<>> THEN acc
    ELSE earliest(Tail(ts), IF Before(Head(ts), acc) THEN Head(ts) ELSE acc)

RECURSIVE latest(_, _)
latest(ts, acc) ==
    IF ts = <<>> THEN acc
    ELSE latest(Tail(ts), IF After(Head(ts), acc) THEN Head(ts) ELSE acc)

findDateRange(ts) ==
    IF Len(ts) = 0 THEN [start |-> ZeroTime, end |-> ZeroTime]
    ELSE [start |-> earliest(ts, ts[1]), end |-> latest(ts, ts[1])]

\* duration in seconds
filterByTimeRange(ts, end, duration) ==
    LET startTime == AddSeconds(end, -duration)
        keep == [t \in Range(ts) |->
                    After(t, startTime) /\ Before(t, AddSeconds(end, 24 * SecPerHour))]
    IN SelectSeq2(ts, keep)

\* "2023-Q1" as [year, quarter]
getQuarter(t, l) ==
    LET c == DateOf(t, l)
    IN [year |-> c.year,
        quarter |-> IF c.month <= 3 THEN 1
                    ELSE IF c.month <= 6 THEN 2
                    ELSE IF c.month <= 9 THEN 3
                    ELSE 4]

groupByQuarter(ts, l) ==
    [q \in {getQuarter(ts[i], l) : i \in 1..Len(ts)} |->
        SelectSeq2(ts, [t \in Range(ts) |-> getQuarter(t, l) = q])]

\* t.Weekday(): 0 is Sunday; 1970-01-01 was a Thursday.
Weekday(t, l) == ((LocalSec(t, l) \div SecPerDay) + 4) % 7

\* t.ISOWeek() as [year, week]: the year and week of the Thursday of t's week.
ISOWeek(t, l) ==
    LET wd   == Weekday(t, l)
        d    == IF wd = 0 THEN -3 ELSE 4 - wd
        thu  == (LocalSec(t, l) \div SecPerDay) + d
        year == CivilFromDays(thu).year
        yday == thu - DaysFromCivil(year, 1, 1)
    IN [year |-> year, week |-> yday \div 7 + 1]

weekStartOf(t, l) ==
    LET weekday == IF Weekday(t, l) = 0 THEN 7 ELSE Weekday(t, l)
    IN Truncate24h(AddDate(t, 0, 0, -(weekday - 1), l))

\* The index of the first element of ts that lies in ISO week key.
firstInWeek(ts, key, l) ==
    CHOOSE i \in 1..Len(ts) :
        /\ ISOWeek(ts[i], l) = key
        /\ \A j \in 1..(i - 1) : ISOWeek(ts[j], l) # key

\* The elements of a set in some order (the order a map is ranged over).
RECURSIVE SetToSeq(_)
SetToSeq(S) ==
    IF S = {} THEN <<>>
    ELSE LET x == CHOOSE y \in S : TRUE IN <<x>> \o SetToSeq(S \ {x})

aggregateByWeek(ts, l) ==
    LET isoWeekOf(t) == ISOWeek(t, l)
        series(weekMap) ==
            LET weekStarts == [key \in DOMAIN weekMap |->
                                  weekStartOf(ts[firstInWeek(ts, key, l)], l)]
                fill(weeks) == [i \in 1..Len(weeks) |->
                                  [Week |-> weeks[i],
                                   Count |-> mapGet(weekMap, ISOWeek(weeks[i], l))]]
                sortKeys(keys) ==
                    Eval(SortTimes([i \in 1..Len(keys) |-> weekStarts[keys[i]]]), fill)
            IN Eval(SetToSeq(DOMAIN weekMap), sortKeys)
    IN Eval(countMap(ts, isoWeekOf), series)

(***************************************************************************)
(* The periodogram (convertToHours, computePeriodogram, computePower) and  *)
(* detect.                                                                 *)
(***************************************************************************)
\* Hours since the earliest time of the collection.
convertToHours(ts) ==
    IF Len(ts) = 0 THEN <<>>
    ELSE LET minTime == earliest(ts, ts[1])
         IN [i \in 1..Len(ts) |-> SubHours(ts[i], minTime)]

\* math.Sin and math.Cos in fixed point: the argument is a number of whole
\* degrees in 0..359, the value is scaled by TrigScale (Bhaskara's rational
\* approximation of the sine).
TrigScale == 1000

sinDeg(k) ==
    LET half(j) == (4 * TrigScale * j * (180 - j)) \div (40500 - j * (180 - j))
    IN IF k <= 180 THEN half(k) ELSE -half(k - 180)

cosDeg(k) == sinDeg((k + 90) % 360)

\* The angle omega * t = 2 * pi * freq * t in whole degrees within one turn.
phaseDeg(freq, t) ==
    LET turns == RatMul(freq, t)
    IN (360 * (turns.n % turns.d)) \div turns.d

RECURSIVE sumOver(_, _, _, _)
sumOver(ts, freq, fn(_), k) ==
    IF k = 0 THEN 0 ELSE sumOver(ts, freq, fn, k - 1) + fn(phaseDeg(freq, ts[k]))

\* (sumCos*sumCos + sumSin*sumSin) / N, in units of 10^(-6)
computePower(ts, freq) ==
    LET sumCos == sumOver(ts, freq, cosDeg, Len(ts))
        sumSin == sumOver(ts, freq, sinDeg, Len(ts))
    IN Dec((sumCos * sumCos + sumSin * sumSin) \div Len(ts), 6)

\* float64(SamplesPerPeak) * T * (maxFreq - minFreq)
gridProduct(T, cfg) ==
    RatMul(RatMul(RatInt(cfg.SamplesPerPeak), T),
           RatSub(RatInv(RatInt(cfg.MinPeriod)), RatInv(RatInt(cfg.MaxPeriod))))

\* Variant that rounds the product to the nearest integer.
unclampedGridSizeRounded(T, cfg) == RatRound(gridProduct(T, cfg))

\* nFreqs := int(float64(SamplesPerPeak) * T * (maxFreq - minFreq))
unclampedGridSize(T, cfg) == RatTrunc(gridProduct(T, cfg))

\* if nFreqs < 100 { nFreqs = 100 } else if nFreqs > 10000 { nFreqs = 10000 }
clampGridSize(n) == IF n < 100 THEN 100 ELSE IF n > 10000 THEN 10000 ELSE n

gridSize(T, cfg) == clampGridSize(unclampedGridSize(T, cfg))

\* T := times[len(times)-1] - times[0]
spanOf(th) == RatSub(th[Len(th)], th[1])

\* The frequency grid of nFreqs points.
gridFreqs(nFreqs, cfg) ==
    LET minFreq == RatInv(RatInt(cfg.MaxPeriod))
        maxFreq == RatInv(RatInt(cfg.MinPeriod))
        df      == RatDiv(RatSub(maxFreq, minFreq), RatInt(nFreqs - 1))
    IN [i \in 1..nFreqs |-> RatAdd(minFreq, RatMul(RatInt(i - 1), df))]

computePeriodogram(th, cfg) ==
    LET T == spanOf(th)
    IN IF RatLeq(T, RatInt(0)) THEN [freqs |-> <<>>, powers |-> <<>>]
       ELSE CHOOSE pg \in {[freqs  |-> fq,
                            powers |-> [i \in 1..Len(fq) |-> computePower(th, fq[i])] \o <<>>] :
                              fq \in {gridFreqs(gridSize(T, cfg), cfg) \o <<>>}} : TRUE

\* The set of values detect can return.
detect(ts, cfg) ==
    IF Len(ts) < 4 THEN {<<>>}
    ELSE UNION {UNION {findSignificantPeaks(pg.freqs, pg.powers, cfg.NumPeriods) :
                          pg \in {computePeriodogram(th, cfg)}} :
                   th \in {convertToHours(ts) \o <<>>}}

(***************************************************************************)
(* Spec: AnalyzeTimestamps, statement by statement.                        *)
(***************************************************************************)
MaxLen == 5

MsPerHour == 3600000

\* Inputs: n timestamps at irregular multiples of a step (a millisecond, 10
\* hours, 43 hours) from an origin half a second before 1969-12-30 23:00 UTC,
\* in one of four orders.
OriginMs == -90000500

StepsMs == {1, 10 * MsPerHour, 43 * MsPerHour}

Orders == {"ascending", "descending", "constant", "swapped"}

offsetAt(i) == (i * i) \div 3

positionIn(order, n, i) ==
    IF order = "ascending" THEN i
    ELSE IF order = "descending" THEN n + 1 - i
    ELSE IF order = "constant" THEN 1
    ELSE IF i = 2 THEN n ELSE IF i = n THEN 2 ELSE i

Inputs ==
    {[i \in 1..n |-> OriginMs + step * offsetAt(positionIn(order, n, i))] :
        n \in 0..MaxLen, step \in StepsMs, order \in Orders}

Configs ==
    [MinPeriod : {0, 2, 24}, MaxPeriod : {0, 24}, NumPeriods : {0, 1, 3}, SamplesPerPeak : {1}]

NoPeriods == [Daily |-> <<>>, Weekly |-> <<>>, AllTime |-> <<>>, Quarterly |-> <<>>]

NoResult ==
    [TotalRecords |-> 0, StartDate |-> ZeroTime, EndDate |-> ZeroTime,
     Days |-> <<>>, Weeks |-> <<>>, Months |-> <<>>, Periods |-> NoPeriods,
     Continuous |-> [AllData |-> NoPeriods, LongestContinuous |-> NoPeriods,
                     Start |-> ZeroTime, End |-> ZeroTime, RecordCount |-> 0]]

Init ==
    /\ timestamps \in Inputs
    /\ config \in Configs
    /\ loc \in Locations
    /\ pc = "validate"
    /\ times = <<>>
    /\ err = ""
    /\ result = NoResult
    /\ local = [continuous |-> <<>>, quarters |-> <<>>]
    /\ observed = <<>>
    /\ freqs = <<>>
    /\ powers = <<>>
    /\ peaks = <<>>

\* Variant that accepts minPeriod = maxPeriod.
validationErrorLax(tss, cfg) ==
    IF Len(tss) = 0 THEN "no timestamps provided"
    ELSE IF cfg.MinPeriod <= 0 THEN "minPeriod must be positive"
    ELSE IF cfg.MaxPeriod <= 0 THEN "maxPeriod must be positive"
    ELSE IF cfg.MinPeriod > cfg.MaxPeriod THEN "minPeriod must be less than maxPeriod"
    ELSE IF cfg.NumPeriods <= 0 THEN "numPeriods must be at least 1"
    ELSE ""

validationError(tss, cfg) ==
    IF Len(tss) = 0 THEN "no timestamps provided"
    ELSE IF cfg.MinPeriod <= 0 THEN "minPeriod must be positive"
    ELSE IF cfg.MaxPeriod <= 0 THEN "maxPeriod must be positive"
    ELSE IF cfg.MinPeriod >= cfg.MaxPeriod THEN "minPeriod must be less than maxPeriod"
    ELSE IF cfg.NumPeriods <= 0 THEN "numPeriods must be at least 1"
    ELSE ""

\* Variant that runs the continuity analysis before the window analyses.
stmtOrderContinuityFirst ==
    <<"validate", "convert", "findDateRange", "aggregateByDay", "aggregateByWeek",
      "aggregateByMonth", "continuousAllData", "findLongestContinuousPeriod",
      "continuousLongest", "detectDaily", "detectWeekly", "detectAllTime",
      "detectQuarterly", "return", "done">>

\* The statements of AnalyzeTimestamps in program order.
stmtOrder ==
    <<"validate", "convert", "findDateRange", "aggregateByDay", "aggregateByWeek",
      "aggregateByMonth", "detectDaily", "detectWeekly", "detectAllTime",
      "detectQuarterly", "continuousAllData", "findLongestContinuousPeriod",
      "continuousLongest", "return", "done">>

nextStmt(p) == stmtOrder[(CHOOSE i \in 1..Len(stmtOrder) : stmtOrder[i] = p) + 1]

PeaksIdle == UNCHANGED <<freqs, powers, peaks>>

Validate ==
    /\ pc = "validate"
    /\ err' = validationError(timestamps, config)
    /\ pc' = IF err' # "" THEN "error" ELSE nextStmt(pc)
    /\ UNCHANGED <<timestamps, config, loc, times, result, local, observed>>
    /\ PeaksIdle

Convert ==
    /\ pc = "convert"
    /\ times' = convertTimes(timestamps)
    /\ pc' = nextStmt(pc)
    /\ UNCHANGED <<timestamps, config, loc, err, result, local, observed>>
    /\ PeaksIdle

\* A statement that assigns the local or result field r' and leaves the
\* working collection alone.
Assign(stmt, newResult) ==
    /\ pc = stmt
    /\ result' = newResult
    /\ pc' = nextStmt(pc)
    /\ UNCHANGED <<timestamps, config, loc, times, err, local, observed>>
    /\ PeaksIdle

FindDateRange ==
    Assign("findDateRange",
           [result EXCEPT !.StartDate = findDateRange(times).start,
                          !.EndDate = findDateRange(times).end])

AggregateDays ==
    Assign("aggregateByDay", [result EXCEPT !.Days = aggregateByDay(times, loc)])

AggregateWeeks ==
    Assign("aggregateByWeek", [result EXCEPT !.Weeks = aggregateByWeek(times, loc)])

AggregateMonths ==
    Assign("aggregateByMonth", [result EXCEPT !.Months = aggregateByMonth(times, loc)])

\* A top-level window: detector.detect(window of times).
Window(stmt, field, window) ==
    /\ pc = stmt
    /\ \E r \in detect(window, config) :
          result' = [result EXCEPT !.Periods[field] = r]
    /\ observed' = Append(observed, [window |-> field, times |-> times])
    /\ pc' = nextStmt(pc)
    /\ UNCHANGED <<timestamps, config, loc, times, err, local>>
    /\ PeaksIdle

DetectDaily ==
    Window("detectDaily", "Daily", filterByTimeRange(times, result.EndDate, 72 * SecPerHour))

DetectWeekly ==
    Window("detectWeekly", "Weekly", filterByTimeRange(times, result.EndDate, 336 * SecPerHour))

DetectAllTime == Window("detectAllTime", "AllTime", times)

\* detectQuarterlyPeriods: one iteration of the loop over the quarters, in
\* the order the map is ranged over.
DetectQuarterly ==
    /\ pc = "detectQuarterly"
    /\ LET quarters == groupByQuarter(times, loc)
           done     == DOMAIN result.Periods.Quarterly
       IN \E q \in DOMAIN quarters \ done :
            /\ \E r \in detect(quarters[q], config) :
                  result' = [result EXCEPT !.Periods.Quarterly =
                                [k \in done \cup {q} |->
                                    IF k = q THEN r ELSE result.Periods.Quarterly[k]]]
            /\ pc' = IF DOMAIN quarters \ done = {q} THEN nextStmt(pc) ELSE pc
            /\ observed' = IF DOMAIN quarters \ done = {q}
                           THEN Append(observed, [window |-> "Quarterly", times |-> times])
                           ELSE observed
    /\ UNCHANGED <<timestamps, config, loc, times, err, local>>
    /\ PeaksIdle

\* analyzeContinuousPeriods, lines 394-403
ContinuousAllData ==
    /\ pc = "continuousAllData"
    /\ LET D == detect(times, config)
       IN \E r1 \in D : \E r2 \in D : \E r3 \in D :
             result' = [result EXCEPT
                          !.Continuous.AllData.Daily = r1,
                          !.Continuous.AllData.Weekly = r2,
                          !.Continuous.AllData.AllTime = r3,
                          !.Continuous.RecordCount = Len(times)]
    /\ pc' = nextStmt(pc)
    /\ UNCHANGED <<timestamps, config, loc, times, err, local, observed>>
    /\ PeaksIdle

\* Variant in which the slice that is sorted shares its array with the
\* caller's timestamps.
sortedArrayOfCaller == "timestamps"

\* The array that the sort.Slice of findLongestContinuousPeriod writes: the
\* one behind its parameter, which analyzeContinuousPeriods received from
\* AnalyzeTimestamps, where it was allocated by make (line 104).
sortedArray == "times"

\* The epoch milliseconds of a time (the inverse of the conversion).
timeMillis(t) == t.sec * MsPerSec + t.nsec \div NsecPerMs

\* analyzeContinuousPeriods, line 406: sorts the working collection in place
FindLongest ==
    /\ pc = "findLongestContinuousPeriod"
    /\ LET r == findLongestContinuousPeriod(times)
       IN /\ times' = IF sortedArray = "times" THEN r.times ELSE times
          /\ timestamps' = IF sortedArray = "timestamps"
                           THEN [i \in 1..Len(r.times) |-> timeMillis(r.times[i])]
                           ELSE timestamps
          /\ local' = [local EXCEPT !.continuous = r.continuous]
          /\ result' = IF Len(r.continuous) > 0
                       THEN [result EXCEPT !.Continuous.Start = r.start,
                                           !.Continuous.End = r.end]
                       ELSE result
    /\ pc' = nextStmt(pc)
    /\ UNCHANGED <<config, loc, err, observed>>
    /\ PeaksIdle

\* analyzeContinuousPeriods, lines 407-413
ContinuousLongest ==
    /\ pc = "continuousLongest"
    /\ IF Len(local.continuous) > 0
       THEN LET D == detect(local.continuous, config)
            IN \E r1 \in D : \E r2 \in D : \E r3 \in D :
                  result' = [result EXCEPT
                               !.Continuous.LongestContinuous.Daily = r1,
                               !.Continuous.LongestContinuous.Weekly = r2,
                               !.Continuous.LongestContinuous.AllTime = r3]
       ELSE UNCHANGED result
    /\ pc' = nextStmt(pc)
    /\ UNCHANGED <<timestamps, config, loc, times, err, local, observed>>
    /\ PeaksIdle

Return == Assign("return", [result EXCEPT !.TotalRecords = Len(times)])

Next ==
    \/ Validate
    \/ Convert
    \/ FindDateRange
    \/ AggregateDays
    \/ AggregateWeeks
    \/ AggregateMonths
    \/ DetectDaily
    \/ DetectWeekly
    \/ DetectAllTime
    \/ DetectQuarterly
    \/ ContinuousAllData
    \/ FindLongest
    \/ ContinuousLongest
    \/ Return

Spec == Init /\ [][Next]_vars


(***************************************************************************)
(* Properties of AnalyzeTimestamps (Spec).                                 *)
(***************************************************************************)
Invalid ==
    \/ Len(timestamps) = 0
    \/ config.MinPeriod <= 0
    \/ config.MaxPeriod <= 0
    \/ config.MinPeriod >= config.MaxPeriod
    \/ config.NumPeriods <= 0

\* A window from which no period can come: fewer than 4 points, a span that
\* is not positive, or a spectrum without a local maximum.
Degenerate(w) ==
    \/ Len(w) < 4
    \/ findLocalPeaks(computePeriodogram(convertToHours(w) \o <<>>, config).powers) = <<>>

EmptyWhenDegenerate(w, periods) == Degenerate(w) => periods = <<>>

DegenerateWindowsEmpty ==
    LET all == convertTimes(timestamps)
        quarters == groupByQuarter(all, loc)
    IN /\ EmptyWhenDegenerate(filterByTimeRange(all, result.EndDate, 72 * SecPerHour),
                              result.Periods.Daily)
       /\ EmptyWhenDegenerate(filterByTimeRange(all, result.EndDate, 336 * SecPerHour),
                              result.Periods.Weekly)
       /\ EmptyWhenDegenerate(all, result.Periods.AllTime)
       /\ DOMAIN result.Periods.Quarterly = DOMAIN quarters
       /\ \A q \in DOMAIN quarters :
             EmptyWhenDegenerate(quarters[q], result.Periods.Quarterly[q])
       /\ \A f \in {"Daily", "Weekly", "AllTime"} :
             /\ EmptyWhenDegenerate(all, result.Continuous.AllData[f])
             /\ EmptyWhenDegenerate(local.continuous, result.Continuous.LongestContinuous[f])

\* C1: AnalyzeTimestamps returns an error exactly when the timestamps are
\* empty or the config has minPeriod <= 0, maxPeriod <= 0, minPeriod >=
\* maxPeriod or numPeriods <= 0; the error comes before anything is converted,
\* aggregated or detected; on every other input the call succeeds, and every
\* degenerate window has an empty period sequence.
C1_ErrorIffInvalid ==
    /\ pc # "validate" => ((err # "") <=> Invalid)
    /\ err # "" => /\ pc = "error"
                   /\ times = <<>>
                   /\ observed = <<>>
                   /\ result = NoResult
    /\ pc = "done" => err = "" /\ DegenerateWindowsEmpty

C1_Witness ==
    /\ pc = "error"
    /\ Len(timestamps) >= 4
    /\ config.MinPeriod > 0
    /\ config.MinPeriod < config.MaxPeriod
    /\ config.NumPeriods <= 0

TopLevelWindows == {"Daily", "Weekly", "AllTime", "Quarterly"}

WindowsComputed == {observed[i].window : i \in 1..Len(observed)}

Reordered == Len(times) > 0 /\ times # convertTimes(timestamps)

\* C6: the in-place sort of the working collection happens only after the
\* four top-level windows (daily, weekly, allTime, quarterly) have been
\* computed: the continuity analysis starts after them, and every top-level
\* window read the collection in its original order.
C6_SortAfterWindows ==
    /\ Reordered => WindowsComputed = TopLevelWindows
    /\ pc \in {"continuousAllData", "findLongestContinuousPeriod", "continuousLongest"}
          => WindowsComputed = TopLevelWindows
    /\ \A i \in 1..Len(observed) : observed[i].times = convertTimes(timestamps)

C6_Witness ==
    /\ pc = "done"
    /\ Reordered
    /\ WindowsComputed = TopLevelWindows
    /\ result.Periods.AllTime # <<>>


(***************************************************************************)
(* SpecGrid: computePeriodogram, statement by statement, on four times     *)
(* (in hours) whose positional span is T.                                  *)
(***************************************************************************)
MaxSpan == 45

\* SamplesPerPeak of the large grids
ManySamples == 450

GridConfigs ==
    [MinPeriod : {1}, MaxPeriod : {2}, NumPeriods : {1}, SamplesPerPeak : {-5, 1, 5}]
      \cup [MinPeriod : {2}, MaxPeriod : {24}, NumPeriods : {1}, SamplesPerPeak : {-5, 1, 5}]

hoursWithSpan(T) == <<RatInt(1), RatInt(0), RatInt(3), RatInt(1 + T)>>

InitGrid ==
    /\ \E T \in -1..MaxSpan : \E cfg \in GridConfigs :
          \/ /\ config = cfg
             /\ local = [timesHours |-> hoursWithSpan(T), T |-> RatInt(0), nFreqs |-> 0]
          \/ /\ T >= MaxSpan - 1
             /\ config = [cfg EXCEPT !.SamplesPerPeak = ManySamples]
             /\ local = [timesHours |-> hoursWithSpan(T), T |-> RatInt(0), nFreqs |-> 0]
    /\ pc = "span"
    /\ freqs = <<>>
    /\ powers = <<>>
    /\ timestamps = <<>>
    /\ times = <<>>
    /\ loc = "UTC"
    /\ err = ""
    /\ result = <<>>
    /\ peaks = <<>>
    /\ observed = <<>>

GridFrame == UNCHANGED <<timestamps, config, loc, times, err, result, peaks, observed>>

\* lines 177-180
ComputeSpan ==
    /\ pc = "span"
    /\ local' = [local EXCEPT !.T = spanOf(local.timesHours)]
    /\ pc' = IF RatLeq(local'.T, RatInt(0)) THEN "done" ELSE "gridSize"
    /\ UNCHANGED <<freqs, powers>>
    /\ GridFrame

\* line 182
ComputeGridSize ==
    /\ pc = "gridSize"
    /\ local' = [local EXCEPT !.nFreqs = unclampedGridSize(local.T, config)]
    /\ pc' = "clamp"
    /\ UNCHANGED <<freqs, powers>>
    /\ GridFrame

\* lines 183-187
ClampGridSize ==
    /\ pc = "clamp"
    /\ local' = [local EXCEPT !.nFreqs = clampGridSize(local.nFreqs)]
    /\ pc' = "fill"
    /\ UNCHANGED <<freqs, powers>>
    /\ GridFrame

\* lines 189-202
FillGrid ==
    /\ pc = "fill"
    /\ freqs' = gridFreqs(local.nFreqs, config) \o <<>>
    /\ powers' = [i \in 1..local.nFreqs |-> computePower(local.timesHours, freqs'[i])]
    /\ pc' = "done"
    /\ UNCHANGED local
    /\ GridFrame

NextGrid ==
    \/ ComputeSpan
    \/ ComputeGridSize
    \/ ClampGridSize
    \/ FillGrid

SpecGrid == InitGrid /\ [][NextGrid]_vars

GridBuilt == pc = "done" /\ RatLess(RatInt(0), local.T)

\* samplesPerPeak * T * (maxFreq - minFreq) in thousandths, rounded down
ProductMilli ==
    (1000 * config.SamplesPerPeak * local.T.n * (config.MaxPeriod - config.MinPeriod))
        \div (local.T.d * config.MaxPeriod * config.MinPeriod)

Clamped(n) == Max(100, Min(10000, n))

\* C10 as stated: the grid of every input with span T > 0 has
\* clamp(round(samplesPerPeak * T * (maxFreq - minFreq)), 100, 10000) points,
\* the product being rounded to the nearest integer.
C10_GridSizeRounded ==
    GridBuilt => /\ Len(freqs) = Clamped((ProductMilli + 500) \div 1000)
                 /\ Len(powers) = Len(freqs)

\* C10, amended: the grid of every input with span T > 0 has
\* clamp(trunc(samplesPerPeak * T * (maxFreq - minFreq)), 100, 10000) points,
\* the product being truncated toward zero; the grid never has fewer than 100
\* or more than 10000 frequencies.
C10_GridSizeTruncated ==
    GridBuilt => /\ Len(freqs) = Clamped(IF ProductMilli >= 0
                                         THEN ProductMilli \div 1000
                                         ELSE -((-ProductMilli) \div 1000))
                 /\ Len(freqs) >= 100
                 /\ Len(freqs) <= 10000
                 /\ Len(powers) = Len(freqs)

\* A grid whose size is neither clamped nor what rounding would give.
C10_Witness ==
    /\ GridBuilt
    /\ Len(freqs) > 100
    /\ Len(freqs) < 10000
    /\ ProductMilli % 1000 >= 500

(***************************************************************************)
(* SpecDetect: detect on a collection of times in a given order and on the *)
(* same collection in chronological order.                                 *)
(***************************************************************************)
MaxDetectLen == 4

\* The orders of 1..n
OrdersOf(n) == {p \in [1..n -> 1..n] : \A i, j \in 1..n : p[i] = p[j] => i = j}

DetectInputs ==
    {[i \in 1..n |-> OriginMs + step * offsetAt(p[i])] :
        n \in {MaxDetectLen}, step \in StepsMs, p \in OrdersOf(MaxDetectLen)}

InitDetect ==
    /\ timestamps \in DetectInputs
    /\ times = convertTimes(timestamps)
    /\ config \in [MinPeriod : {2}, MaxPeriod : {24}, NumPeriods : {1, 3}, SamplesPerPeak : {1}]
    /\ pc = "detectGiven"
    /\ result = [given |-> <<>>, sorted |-> <<>>]
    /\ loc = "UTC"
    /\ err = ""
    /\ local = <<>>
    /\ observed = <<>>
    /\ freqs = <<>>
    /\ powers = <<>>
    /\ peaks = <<>>

DetectFrame ==
    UNCHANGED <<timestamps, config, loc, times, err, local, observed, freqs, powers, peaks>>

DetectGiven ==
    /\ pc = "detectGiven"
    /\ \E r \in detect(times, config) : result' = [result EXCEPT !.given = r]
    /\ pc' = "detectSorted"
    /\ DetectFrame

DetectSorted ==
    /\ pc = "detectSorted"
    /\ \E r \in detect(SortTimes(times), config) : result' = [result EXCEPT !.sorted = r]
    /\ pc' = "done"
    /\ DetectFrame

NextDetect ==
    \/ DetectGiven
    \/ DetectSorted

SpecDetect == InitDetect /\ [][NextDetect]_vars

\* C9: detect returns the same period results for a collection of at least 4
\* times in any order as for the same collection in chronological order; in
\* particular the order does not turn a non-empty result into an empty one.
C9_OrderIndependent ==
    pc = "done" /\ Len(times) >= 4 => result.given = result.sorted

\* What does hold: a collection already in chronological order is unaffected.
DetectSortedInputAgrees ==
    pc = "done" /\ times = SortTimes(times) => result.given = result.sorted


(***************************************************************************)
(* The caller's slice (Spec).                                              *)
(***************************************************************************)
\* C11: AnalyzeTimestamps never modifies the caller's timestamp slice: no
\* step of the call, on the success path or on the error path, changes an
\* element or its position; the in-place sort works on the converted
\* collection only.
C11_CallerSliceUnchanged == [][timestamps' = timestamps]_vars

\* The call has returned, the caller's slice was not in ascending order and
\* the sort has reordered the converted collection.
C11_Witness ==
    /\ pc = "done"
    /\ \E i \in 1..(Len(timestamps) - 1) : timestamps[i] > timestamps[i + 1]
    /\ times = SortTimes(convertTimes(timestamps))
    /\ times # convertTimes(timestamps)

=============================================================================
